---- MODULE Spec2Model ----
(***************************************************************************)
(* Model of the two scraper programs of the repository:                    *)
(*   part1  src/part1_scraper.py  requests session + tenacity retry        *)
(*   part2  src/part2_scraper.py  selenium driver + consecutive-failure    *)
(*                                counter                                  *)
(* A run is main(): login, then the pagination routine, then the save.     *)
(* Both programs are sequential; pc is the position of the single thread.  *)
(* The two manager classes, src/session_management.py and                  *)
(* src/web_driver_management.py, and the login functions called on their   *)
(* own are the objects of a second specification, AuthSpec.                *)
(***************************************************************************)
EXTENDS Integers, Sequences, FiniteSets, TLC

\* ---------------------------------------------------------------- bounds
\* the largest max_pages argument, the largest "Page 1 of L" and the last
\* page number a run without page limit is followed to
MaxPages == 3
\* the most product_pod elements on one page
MaxBooks == 1
\* the most drivers one WebDriverManagement sets up
MaxDrivers == 2
\* the most get_session calls made on one SessionManagement
MaxSessionCalls == 3

\* ------------------------------------------------------ program constants
MaxAttempts == 5
WaitMin == 3
WaitMax == 10
PaceMin == 1
PaceMax == 3
FailureThreshold == 3
StatusOK == 200

VARIABLES
    variant,               \* "part1" | "part2": which program runs
    max_pages_arg,         \* the max_pages argument of the pagination routine
    pc,                    \* position of the thread
    caller,                \* who called fetch_page: "get_max_page" | "scrape" | "none"
    logged_in,             \* "unknown" | "yes" | "no": what login() returned
    max_pages,             \* local max_pages of the routine (part1 resolves 0)
    page,                  \* local page
    data,                  \* local data: sequence of records <<page, index>>
    consecutive_failures,  \* part2 local counter
    attempt,               \* tenacity attempt_number of the running fetch_page call
    sleepFor,              \* duration of the sleep in progress, 0 when none
    ended,                 \* how the routine ended: "no" | "returned" | "raised"
    result,                \* the value it returned
    saved,                 \* what main wrote to scraped_data.json
    requested,             \* history: page numbers requested by the loop, in order
    attempts,              \* history: the page requested last and the requests sent
                           \* for it so far in the run, over all calls
    callWaits,             \* history: backoff waits inside the running fetch_page call
    lastCall,              \* history: the last finished page fetch
    pagerSeen,             \* history: the pager get_max_page read on page 1
    fatalRun,              \* history: fatal page fetches since the last successful one
    sleepsSince,           \* history: pacing sleeps since the last page fetch started
    lastGap,               \* history: pacing sleeps between the last two page fetches
    identity,              \* history: the identity the request sent last went out with
    cred,                  \* which of username, password are given (not None, not "")
    is_login,              \* SessionManagement.is_login
    built,                 \* a WebDriverManagement has been constructed
    proxies,               \* WebDriverManagement.proxies
    user_agents,           \* WebDriverManagement.user_agents
    driver,                \* WebDriverManagement.driver: 0 for None, else the driver's number
    is_logged_in,          \* WebDriverManagement.is_logged_in
    driverIdentity,        \* the proxy and user agent the driver was set up with
    drivers,               \* history: drivers set up so far
    loginDone,             \* history: the drivers on which _login ran and returned True
    wdError,               \* history: the exception the last get_driver call raised
    authCall,              \* history: the last call of an authenticator
    lastOp,                \* history: the last operation called on an object
    sessionLog             \* history: get_session calls, the login requests they
                           \* sent and the session they returned

vars == << variant, max_pages_arg, pc, caller, logged_in, max_pages, page, data,
           consecutive_failures, attempt, sleepFor, ended, result, saved,
           requested, attempts, callWaits, lastCall, pagerSeen, fatalRun,
           sleepsSince, lastGap, identity, cred, is_login, built, proxies,
           user_agents, driver, is_logged_in, driverIdentity, drivers,
           loginDone, wdError, authCall, lastOp, sessionLog >>

Pages == 1..MaxPages
Statuses == {200, 204, 304, 404, 500}
TransportErrors == {"timeout", "connection_error"}

\* the configured pools: PROXIES and USER_AGENTS of part1, read from the
\* environment when the module is loaded
PROXIES == {"proxy1"}
USER_AGENTS == {"agent1"}

\* random.choice(PROXIES) with random.choice(USER_AGENTS)
Identities == [proxy : PROXIES, agent : USER_AGENTS]

\* a request that goes out with no proxy and the client's own user agent
NoIdentity == [proxy |-> "none", agent |-> "none"]

\* ------------------------------------------------------------ pure parts

\* what one HTTP request can end in: a response with a status, or an exception
Outcomes ==
    { [kind |-> "response", status |-> s] : s \in Statuses }
    \cup { [kind |-> k, status |-> 0] : k \in TransportErrors }

\* part1 login(): True only for status 200; a RequestException gives False
login(resp) ==
    resp.kind = "response" /\ resp.status = StatusOK

\* part2 login(): driver.get(auth_url) then WebDriverWait(driver, 10) for <body>
login_driver(nav, wait) ==
    nav = "ok" /\ wait = "present"

\* a main() that goes on to scrape whatever login returned
main_continues_always(ok) ==
    TRUE

\* main(): "if not login(...): return"
main_continues(ok) ==
    ok

\* response.raise_for_status(): HTTPError for 4xx and 5xx
raise_for_status(status) ==
    status >= 400 /\ status < 600

\* one attempt of the body of fetch_page raises
AttemptRaises(outcome) ==
    outcome.kind # "response" \/ raise_for_status(outcome.status)

\* a stop rule that gives up one attempt early
stop_one_early(n) ==
    n >= MaxAttempts - 1

\* a stop rule that allows one attempt more
stop_one_late(n) ==
    n >= MaxAttempts + 1

\* tenacity stop=stop_after_attempt(5)
stop_after_attempt(n) ==
    n >= MaxAttempts

\* tenacity wait=wait_random(min=3, max=10), in whole time units
wait_random == WaitMin..WaitMax

\* random.randint(1, 3)
pacing_delay == PaceMin..PaceMax

\* decimal numerals, as int() reads them
Numerals == << "0", "1", "2", "3", "4", "5", "6", "7", "8", "9" >>

Numeral(n) == Numerals[n + 1]

IsNumeral(tok) == \E i \in DOMAIN Numerals : Numerals[i] = tok

IntOf(tok) == (CHOOSE i \in DOMAIN Numerals : Numerals[i] = tok) - 1

\* what page 1 can show in ul.pager > li.current: no pager at all, an empty
\* text, a text whose last word is not a number, "Page 1 of L"
PagerContents ==
    { [present |-> FALSE, words |-> << >>],
      [present |-> TRUE, words |-> << >>],
      [present |-> TRUE, words |-> << "Page", "1", "of", "many" >>] }
    \cup { [present |-> TRUE, words |-> << "Page", "1", "of", Numeral(l) >>] : l \in 0..MaxPages }

\* the parse of get_max_page: text.strip().split()[-1], then int(); every
\* exception gives 1
parse_last_page(pager) ==
    IF ~pager.present THEN 1
    ELSE IF pager.words = << >> THEN 1
    ELSE LET last_page == pager.words[Len(pager.words)]
         IN  IF IsNumeral(last_page) THEN IntOf(last_page) ELSE 1

\* a fetched page of part1: empty text, or html with some article.product_pod
\* elements; broken: one of them has an <h3> without a titled <a>
PageContents ==
    { [empty |-> TRUE, books |-> 0, broken |-> FALSE] }
    \cup { [empty |-> FALSE, books |-> n, broken |-> b] :
              n \in 0..MaxBooks, b \in BOOLEAN }

\* the records of one page, tagged with the page they come from
Records(p, n) == [i \in 1..n |-> << p, i >>]

\* extract_data_from_html raises (TypeError / KeyError) on a broken element
extract_raises(content) ==
    ~content.empty /\ content.books > 0 /\ content.broken

\* an extraction that gives a placeholder record for a page without elements
extract_placeholder(p, content) ==
    IF content.books = 0 THEN << << p, 0 >> >> ELSE Records(p, content.books)

\* extract_data_from_html: one record per article.product_pod, [] when none
extract_data_from_html(p, content) ==
    IF content.books = 0 THEN << >> ELSE Records(p, content.books)

\* a max-pages test that never stops the loop
reached_max_never(mp, p) ==
    FALSE

\* a loop that fetches the same page again after a success
next_page_stays(p) ==
    p

\* "page += 1" after a page is done
next_page(p) ==
    p + 1

\* part2: the max-pages test of scrape_data, "if max_pages and page > max_pages"
reached_max(mp, p) ==
    mp # 0 /\ p > mp

\* part2: the circuit breaker, "if consecutive_failures >= 3"
breaker_open(cf) ==
    cf >= FailureThreshold

\* status: the status of the response fetch_page returned, 0 when it returned
\* none; found: the product_pod elements found on the page
\* callers of which only the pagination loop catches RetryError
catches_in_loop_only(c) ==
    c = "scrape"

\* the callers of fetch_page catch its RetryError: get_max_page in "except
\* Exception", scrape_paginated_data in "except RetryError"
catches_retry_error(c) ==
    c \in {"get_max_page", "scrape"}

\* a counter that is not reset when a page loads
page_loaded_keeps(cf) ==
    cf

\* part2: "consecutive_failures = 0" once the wait for product_pod passed
page_loaded(cf) ==
    0

\* part2: "consecutive_failures += 1" in "except TimeoutException"
page_timed_out(cf) ==
    cf + 1

NoCall == [by |-> "none", page |-> 0, outcome |-> "none", attempts |-> 0,
           waits |-> 0, status |-> 0, found |-> 0]

NoPager == [present |-> FALSE, words |-> << "unread" >>]

\* no authenticator has been called
NoAuthCall == [who |-> "none", creds |-> FALSE, reachable |-> FALSE,
               requests |-> 0, navigated |-> FALSE, status |-> 0,
               wait |-> "none", result |-> FALSE]

\* self.session of a SessionManagement: the one Session() made by __init__
TheSession == "session"

\* calls: get_session calls so far; requests: login requests sent so far;
\* issued: login requests sent by the last call; saw200: some login request
\* was answered with status 200; atLogin: the requests sent when is_login
\* became true; returned: what the last call returned
NoSessionLog == [calls |-> 0, requests |-> 0, issued |-> 0, saw200 |-> FALSE,
                 atLogin |-> 0, returned |-> "none"]

\* ------------------------------------------------------------------ Init
\* the objects of the manager classes before anything is called on them
ObjectsNew ==
    /\ is_login = FALSE
    /\ built = FALSE
    /\ proxies = {}
    /\ user_agents = {}
    /\ driver = 0
    /\ is_logged_in = FALSE
    /\ driverIdentity = NoIdentity
    /\ drivers = 0
    /\ loginDone = {}
    /\ wdError = "none"
    /\ authCall = NoAuthCall
    /\ lastOp = "none"
    /\ sessionLog = NoSessionLog

\* main() has not been entered
RunNotStarted ==
    /\ pc = "main"
    /\ caller = "none"
    /\ logged_in = "unknown"
    /\ max_pages = 0
    /\ page = 1
    /\ data = << >>
    /\ consecutive_failures = 0
    /\ attempt = 0
    /\ sleepFor = 0
    /\ ended = "no"
    /\ result = << >>
    /\ saved = << >>
    /\ requested = << >>
    /\ attempts = [page |-> 0, count |-> 0, drawn |-> 0]
    /\ callWaits = 0
    /\ lastCall = NoCall
    /\ pagerSeen = NoPager
    /\ fatalRun = 0
    /\ sleepsSince = 0
    /\ lastGap = -1
    /\ identity = NoIdentity

\* a run of part1 or part2; the manager classes are not used by either
Init ==
    /\ variant \in {"part1", "part2"}
    /\ max_pages_arg \in 0..MaxPages
    /\ cred = [username |-> TRUE, password |-> TRUE]
    /\ ObjectsNew
    /\ RunNotStarted

\* ------------------------------------------------- history bookkeeping
\* a page fetch starts: fetch_page is entered (attempt = 0) or driver.get runs
FetchStarts(byLoop) ==
    /\ requested' = IF byLoop THEN Append(requested, page) ELSE requested
    /\ lastGap' = IF lastCall = NoCall THEN -1 ELSE sleepsSince
    /\ sleepsSince' = 0

\* one more request is sent for page p; drew: an identity was drawn for it
Counted(p, drew) ==
    LET before == IF attempts.page = p THEN attempts
                  ELSE [page |-> p, count |-> 0, drawn |-> 0]
    IN  [page |-> p, count |-> before.count + 1,
         drawn |-> before.drawn + (IF drew THEN 1 ELSE 0)]

\* one run of the body of fetch_page: an identity is drawn and the request
\* is sent with it
NoteAttempt(byLoop) ==
    /\ \E id \in Identities : identity' = id
    /\ attempts' = Counted(page, TRUE)
    /\ IF attempt = 0
         THEN FetchStarts(byLoop)
         ELSE UNCHANGED << requested, lastGap, sleepsSince >>

\* the routine returns data to main
ReturnData(d) ==
    /\ pc' = "returned"
    /\ ended' = "returned"
    /\ result' = d

\* part1: "while page <= max_pages" with the locals p and mp, d is data
WhileLoop(p, mp, d) ==
    IF p <= mp
      THEN /\ pc' = "attempt"
           /\ caller' = "scrape"
           /\ UNCHANGED << ended, result >>
      ELSE /\ ReturnData(d)
           /\ caller' = "none"

\* ------------------------------------------------------- part1 actions

\* main(): login; on failure return, else enter scrape_paginated_data up to
\* its first fetch_page call
main_login(resp) ==
    /\ pc = "main" /\ variant = "part1"
    /\ logged_in' = IF login(resp) THEN "yes" ELSE "no"
    /\ IF main_continues(login(resp))
         THEN /\ max_pages' = max_pages_arg
              /\ pc' = "attempt"
              /\ caller' = IF max_pages_arg = 0 THEN "get_max_page" ELSE "scrape"
         ELSE /\ pc' = "exit"
              /\ UNCHANGED << max_pages, caller >>
    /\ UNCHANGED << variant, max_pages_arg, page, data, consecutive_failures,
                    attempt, sleepFor, ended, result, saved, requested,
                    attempts, callWaits, lastCall, pagerSeen, fatalRun,
                    sleepsSince, lastGap, identity, cred, is_login, built,
                    proxies, user_agents, driver, is_logged_in,
                    driverIdentity, drivers, loginDone, wdError, authCall,
                    lastOp, sessionLog >>

\* fetch_page: an attempt raises and tenacity schedules another one
fetch_retry(o, d) ==
    /\ pc = "attempt"
    /\ AttemptRaises(o)
    /\ ~stop_after_attempt(attempt + 1)
    /\ attempt' = attempt + 1
    /\ NoteAttempt(caller = "scrape")
    /\ pc' = "backoff"
    /\ sleepFor' = d
    /\ callWaits' = callWaits + 1
    /\ UNCHANGED << variant, max_pages_arg, caller, logged_in, max_pages,
                    page, data, consecutive_failures, ended, result, saved,
                    lastCall, pagerSeen, fatalRun, cred, is_login, built,
                    proxies, user_agents, driver, is_logged_in,
                    driverIdentity, drivers, loginDone, wdError, authCall,
                    lastOp, sessionLog >>

\* fetch_page: the backoff sleep is over
backoff_done ==
    /\ pc = "backoff"
    /\ pc' = "attempt"
    /\ sleepFor' = 0
    /\ UNCHANGED << variant, max_pages_arg, caller, logged_in, max_pages,
                    page, data, consecutive_failures, attempt, ended, result,
                    saved, requested, attempts, callWaits, lastCall,
                    pagerSeen, fatalRun, sleepsSince, lastGap, identity,
                    cred, is_login, built, proxies, user_agents, driver,
                    is_logged_in, driverIdentity, drivers, loginDone,
                    wdError, authCall, lastOp, sessionLog >>

\* get_max_page: the fetch of page 1 succeeds and the pager is parsed
get_max_page_ok(o, pager) ==
    /\ pc = "attempt" /\ caller = "get_max_page"
    /\ ~AttemptRaises(o)
    /\ NoteAttempt(FALSE)
    /\ lastCall' = [by |-> caller, page |-> page, outcome |-> "ok",
                    attempts |-> attempt + 1, waits |-> callWaits,
                    status |-> o.status, found |-> 0]
    /\ max_pages' = parse_last_page(pager)
    /\ pagerSeen' = pager
    /\ WhileLoop(page, parse_last_page(pager), data)
    /\ attempt' = 0
    /\ callWaits' = 0
    /\ UNCHANGED << variant, max_pages_arg, logged_in, page, data,
                    consecutive_failures, sleepFor, saved, fatalRun, cred,
                    is_login, built, proxies, user_agents, driver,
                    is_logged_in, driverIdentity, drivers, loginDone,
                    wdError, authCall, lastOp, sessionLog >>

\* get_max_page: the fetch of page 1 ends in RetryError; default 1 page
get_max_page_fail(o) ==
    /\ pc = "attempt" /\ caller = "get_max_page"
    /\ AttemptRaises(o)
    /\ stop_after_attempt(attempt + 1)
    /\ NoteAttempt(FALSE)
    /\ lastCall' = [by |-> caller, page |-> page, outcome |-> "fatal",
                    attempts |-> attempt + 1, waits |-> callWaits,
                    status |-> 0, found |-> 0]
    /\ IF catches_retry_error(caller)
         THEN /\ max_pages' = 1
              /\ WhileLoop(page, 1, data)
         ELSE /\ pc' = "raised"
              /\ ended' = "raised"
              /\ caller' = "none"
              /\ UNCHANGED << max_pages, result >>
    /\ attempt' = 0
    /\ callWaits' = 0
    /\ UNCHANGED << variant, max_pages_arg, logged_in, page, data,
                    consecutive_failures, sleepFor, saved, pagerSeen,
                    fatalRun, cred, is_login, built, proxies, user_agents,
                    driver, is_logged_in, driverIdentity, drivers, loginDone,
                    wdError, authCall, lastOp, sessionLog >>

\* scrape_paginated_data: the page is fetched, extracted, page += 1, sleep
scrape_fetch_ok(o, content, d) ==
    /\ pc = "attempt" /\ caller = "scrape" /\ variant = "part1"
    /\ ~AttemptRaises(o)
    /\ ~extract_raises(content)
    /\ NoteAttempt(TRUE)
    /\ lastCall' = [by |-> caller, page |-> page, outcome |-> "ok",
                    attempts |-> attempt + 1, waits |-> callWaits,
                    status |-> o.status, found |-> content.books]
    /\ fatalRun' = 0
    /\ data' = IF content.empty THEN data
               ELSE data \o extract_data_from_html(page, content)
    /\ page' = next_page(page)
    /\ pc' = "pacing"
    /\ sleepFor' = d
    /\ attempt' = 0
    /\ callWaits' = 0
    /\ UNCHANGED << variant, max_pages_arg, caller, logged_in, max_pages,
                    consecutive_failures, ended, result, saved, pagerSeen,
                    cred, is_login, built, proxies, user_agents, driver,
                    is_logged_in, driverIdentity, drivers, loginDone,
                    wdError, authCall, lastOp, sessionLog >>

\* scrape_paginated_data: extract_data_from_html raises; nothing catches it
scrape_extract_raises(o, content) ==
    /\ pc = "attempt" /\ caller = "scrape" /\ variant = "part1"
    /\ ~AttemptRaises(o)
    /\ extract_raises(content)
    /\ NoteAttempt(TRUE)
    /\ lastCall' = [by |-> caller, page |-> page, outcome |-> "error",
                    attempts |-> attempt + 1, waits |-> callWaits,
                    status |-> o.status, found |-> content.books]
    /\ pc' = "raised"
    /\ ended' = "raised"
    /\ caller' = "none"
    /\ attempt' = 0
    /\ callWaits' = 0
    /\ UNCHANGED << variant, max_pages_arg, logged_in, max_pages, page, data,
                    consecutive_failures, sleepFor, result, saved, pagerSeen,
                    fatalRun, cred, is_login, built, proxies, user_agents,
                    driver, is_logged_in, driverIdentity, drivers, loginDone,
                    wdError, authCall, lastOp, sessionLog >>

\* scrape_paginated_data: RetryError, "Skipping..." and break
scrape_fetch_fail(o) ==
    /\ pc = "attempt" /\ caller = "scrape" /\ variant = "part1"
    /\ AttemptRaises(o)
    /\ stop_after_attempt(attempt + 1)
    /\ NoteAttempt(TRUE)
    /\ lastCall' = [by |-> caller, page |-> page, outcome |-> "fatal",
                    attempts |-> attempt + 1, waits |-> callWaits,
                    status |-> 0, found |-> 0]
    /\ fatalRun' = fatalRun + 1
    /\ IF catches_retry_error(caller)
         THEN ReturnData(data)
         ELSE /\ pc' = "raised"
              /\ ended' = "raised"
              /\ UNCHANGED result
    /\ caller' = "none"
    /\ attempt' = 0
    /\ callWaits' = 0
    /\ UNCHANGED << variant, max_pages_arg, logged_in, max_pages, page, data,
                    consecutive_failures, sleepFor, saved, pagerSeen, cred,
                    is_login, built, proxies, user_agents, driver,
                    is_logged_in, driverIdentity, drivers, loginDone,
                    wdError, authCall, lastOp, sessionLog >>

\* the pacing sleep of either loop is over; part1 then tests the while
\* condition, part2 goes round its "while True"
pacing_done ==
    /\ pc = "pacing"
    /\ sleepFor' = 0
    /\ sleepsSince' = sleepsSince + 1
    /\ IF variant = "part1"
         THEN WhileLoop(page, max_pages, data)
         ELSE /\ pc' = "load"
              /\ UNCHANGED << caller, ended, result >>
    /\ UNCHANGED << variant, max_pages_arg, logged_in, max_pages, page, data,
                    consecutive_failures, attempt, saved, requested,
                    attempts, callWaits, lastCall, pagerSeen, fatalRun,
                    lastGap, identity, cred, is_login, built, proxies,
                    user_agents, driver, is_logged_in, driverIdentity,
                    drivers, loginDone, wdError, authCall, lastOp,
                    sessionLog >>

\* ------------------------------------------------------- part2 actions

\* main(): setup_driver(); a WebDriverException ends main in its except
main_setup_driver(ok) ==
    /\ pc = "main" /\ variant = "part2"
    /\ pc' = IF ok THEN "login" ELSE "exit"
    /\ UNCHANGED << variant, max_pages_arg, caller, logged_in, max_pages,
                    page, data, consecutive_failures, attempt, sleepFor,
                    ended, result, saved, requested, attempts, callWaits,
                    lastCall, pagerSeen, fatalRun, sleepsSince, lastGap,
                    identity, cred, is_login, built, proxies, user_agents,
                    driver, is_logged_in, driverIdentity, drivers, loginDone,
                    wdError, authCall, lastOp, sessionLog >>

\* main(): login(driver, ...); on failure return, else enter scrape_data
main_login_driver(nav, wait) ==
    /\ pc = "login"
    /\ logged_in' = IF login_driver(nav, wait) THEN "yes" ELSE "no"
    /\ IF main_continues(login_driver(nav, wait))
         THEN /\ max_pages' = max_pages_arg
              /\ pc' = "load"
         ELSE /\ pc' = "exit"
              /\ UNCHANGED max_pages
    /\ UNCHANGED << variant, max_pages_arg, caller, page, data,
                    consecutive_failures, attempt, sleepFor, ended, result,
                    saved, requested, attempts, callWaits, lastCall,
                    pagerSeen, fatalRun, sleepsSince, lastGap, identity,
                    cred, is_login, built, proxies, user_agents, driver,
                    is_logged_in, driverIdentity, drivers, loginDone,
                    wdError, authCall, lastOp, sessionLog >>

\* one driver.get(url) of scrape_data is issued for the current page
LoadIssued(outcome, n) ==
    /\ pc = "load"
    /\ page \in Pages
    /\ attempts' = Counted(page, FALSE)
    /\ UNCHANGED identity
    /\ FetchStarts(TRUE)
    /\ lastCall' = [by |-> "scrape", page |-> page, outcome |-> outcome,
                    attempts |-> 1, waits |-> 0, status |-> 0, found |-> n]

\* scrape_data: driver.get(url) itself raises; it stands outside the try
load_driver_error ==
    /\ LoadIssued("driver_error", 0)
    /\ pc' = "raised"
    /\ ended' = "raised"
    /\ UNCHANGED << variant, max_pages_arg, caller, logged_in, max_pages,
                    page, data, consecutive_failures, attempt, sleepFor,
                    result, saved, callWaits, pagerSeen, fatalRun, cred,
                    is_login, built, proxies, user_agents, driver,
                    is_logged_in, driverIdentity, drivers, loginDone,
                    wdError, authCall, lastOp, sessionLog >>

\* scrape_data: the page loads with n product_pod elements, m of them complete
load_ok(n, m, d) ==
    /\ LoadIssued("ok", n)
    /\ n >= 1 /\ m <= n
    /\ consecutive_failures' = page_loaded(consecutive_failures)
    /\ fatalRun' = 0
    /\ data' = data \o Records(page, m)
    /\ page' = next_page(page)
    /\ IF reached_max(max_pages, next_page(page))
         THEN /\ ReturnData(data \o Records(page, m))
              /\ UNCHANGED sleepFor
         ELSE /\ pc' = "pacing"
              /\ sleepFor' = d
              /\ UNCHANGED << ended, result >>
    /\ UNCHANGED << variant, max_pages_arg, caller, logged_in, max_pages,
                    attempt, saved, callWaits, pagerSeen, cred, is_login,
                    built, proxies, user_agents, driver, is_logged_in,
                    driverIdentity, drivers, loginDone, wdError, authCall,
                    lastOp, sessionLog >>

\* scrape_data: the wait passes but find_elements gives [] ("No more data")
load_no_data ==
    /\ LoadIssued("no_data", 0)
    /\ consecutive_failures' = page_loaded(consecutive_failures)
    /\ fatalRun' = 0
    /\ ReturnData(data)
    /\ UNCHANGED << variant, max_pages_arg, caller, logged_in, max_pages,
                    page, data, attempt, sleepFor, saved, callWaits,
                    pagerSeen, cred, is_login, built, proxies, user_agents,
                    driver, is_logged_in, driverIdentity, drivers, loginDone,
                    wdError, authCall, lastOp, sessionLog >>

\* scrape_data: TimeoutException of the wait; page is left as it is
load_timeout ==
    /\ LoadIssued("fatal", 0)
    /\ consecutive_failures' = page_timed_out(consecutive_failures)
    /\ fatalRun' = fatalRun + 1
    /\ IF breaker_open(page_timed_out(consecutive_failures))
         THEN ReturnData(data)
         ELSE /\ pc' = "load"
              /\ UNCHANGED << ended, result >>
    /\ UNCHANGED << variant, max_pages_arg, caller, logged_in, max_pages,
                    page, data, attempt, sleepFor, saved, callWaits,
                    pagerSeen, cred, is_login, built, proxies, user_agents,
                    driver, is_logged_in, driverIdentity, drivers, loginDone,
                    wdError, authCall, lastOp, sessionLog >>

\* scrape_data: any other exception inside the try, before the wait passed
\* (afterWait = FALSE) or while m records of the page were already appended
load_error(afterWait, m) ==
    /\ LoadIssued("error", m)
    /\ (~afterWait => m = 0)
    /\ consecutive_failures' = IF afterWait THEN page_loaded(consecutive_failures)
                               ELSE consecutive_failures
    /\ fatalRun' = IF afterWait THEN 0 ELSE fatalRun
    /\ data' = data \o Records(page, m)
    /\ ReturnData(data \o Records(page, m))
    /\ UNCHANGED << variant, max_pages_arg, caller, logged_in, max_pages,
                    page, attempt, sleepFor, saved, callWaits, pagerSeen,
                    cred, is_login, built, proxies, user_agents, driver,
                    is_logged_in, driverIdentity, drivers, loginDone,
                    wdError, authCall, lastOp, sessionLog >>

\* ------------------------------------------------------- end of main()

\* main(): json.dump(data, f)
main_save ==
    /\ pc = "returned"
    /\ saved' = result
    /\ pc' = "exit"
    /\ UNCHANGED << variant, max_pages_arg, caller, logged_in, max_pages,
                    page, data, consecutive_failures, attempt, sleepFor,
                    ended, result, requested, attempts, callWaits, lastCall,
                    pagerSeen, fatalRun, sleepsSince, lastGap, identity,
                    cred, is_login, built, proxies, user_agents, driver,
                    is_logged_in, driverIdentity, drivers, loginDone,
                    wdError, authCall, lastOp, sessionLog >>

\* an exception left the routine: part2 main logs it in "except Exception",
\* part1 main has no handler; either way nothing is saved
main_except ==
    /\ pc = "raised"
    /\ pc' = "exit"
    /\ UNCHANGED << variant, max_pages_arg, caller, logged_in, max_pages,
                    page, data, consecutive_failures, attempt, sleepFor,
                    ended, result, saved, requested, attempts, callWaits,
                    lastCall, pagerSeen, fatalRun, sleepsSince, lastGap,
                    identity, cred, is_login, built, proxies, user_agents,
                    driver, is_logged_in, driverIdentity, drivers, loginDone,
                    wdError, authCall, lastOp, sessionLog >>

Next ==
    \/ \E resp \in Outcomes : main_login(resp)
    \/ \E o \in Outcomes, d \in wait_random : fetch_retry(o, d)
    \/ backoff_done
    \/ \E o \in Outcomes, pager \in PagerContents : get_max_page_ok(o, pager)
    \/ \E o \in Outcomes : get_max_page_fail(o)
    \/ \E o \in Outcomes, c \in PageContents, d \in pacing_delay : scrape_fetch_ok(o, c, d)
    \/ \E o \in Outcomes, c \in PageContents : scrape_extract_raises(o, c)
    \/ \E o \in Outcomes : scrape_fetch_fail(o)
    \/ pacing_done
    \/ \E ok \in BOOLEAN : main_setup_driver(ok)
    \/ \E nav \in {"ok", "error"}, wait \in {"present", "timeout"} : main_login_driver(nav, wait)
    \/ load_driver_error
    \/ \E n \in 1..MaxBooks, m \in 0..MaxBooks, d \in pacing_delay : load_ok(n, m, d)
    \/ load_no_data
    \/ load_timeout
    \/ \E afterWait \in BOOLEAN, m \in 0..MaxBooks : load_error(afterWait, m)
    \/ main_save
    \/ main_except

Spec == Init /\ [][Next]_vars

\* the programs are sequential and every sleep and request ends: a step that
\* is possible is eventually taken
FairSpec == Spec /\ WF_vars(Next)

\* ---------------------------------------------------------------------
\* The authenticators and the manager classes, called on their own

\* "if not self.username or not self.password" is false
HasCredentials == cred.username /\ cred.password

\* the login endpoint answered the request
Reachable(resp) == resp.kind = "response"

\* SessionManagement._login: False without credentials, else True only for
\* status 200; a RequestException gives False
SessionManagement_login(resp) ==
    HasCredentials /\ resp.kind = "response" /\ resp.status = StatusOK

\* WebDriverManagement._login: False without credentials, else the result of
\* WebDriverWait(self.driver, 10) for <body> on the page the driver shows
WebDriverManagement_login(wait) ==
    HasCredentials /\ wait = "present"

\* part1 login(session, url, username, password)
call_login(resp) ==
    /\ authCall' = [who |-> "login", creds |-> HasCredentials,
                    reachable |-> Reachable(resp), requests |-> 1,
                    navigated |-> FALSE, status |-> resp.status,
                    wait |-> "none", result |-> login(resp)]
    /\ lastOp' = "login"
    /\ UNCHANGED << variant, max_pages_arg, pc, caller, logged_in, max_pages,
                    page, data, consecutive_failures, attempt, sleepFor,
                    ended, result, saved, requested, attempts, callWaits,
                    lastCall, pagerSeen, fatalRun, sleepsSince, lastGap,
                    identity, cred, is_login, built, proxies, user_agents,
                    driver, is_logged_in, driverIdentity, drivers, loginDone,
                    wdError, sessionLog >>

\* part2 login(driver, url, username, password); the wait runs only after a
\* driver.get that did not raise
call_login_driver(nav, wait) ==
    /\ authCall' = [who |-> "login_driver", creds |-> HasCredentials,
                    reachable |-> nav = "ok", requests |-> 1,
                    navigated |-> TRUE, status |-> 0,
                    wait |-> IF nav = "ok" THEN wait ELSE "none",
                    result |-> login_driver(nav, wait)]
    /\ lastOp' = "login_driver"
    /\ UNCHANGED << variant, max_pages_arg, pc, caller, logged_in, max_pages,
                    page, data, consecutive_failures, attempt, sleepFor,
                    ended, result, saved, requested, attempts, callWaits,
                    lastCall, pagerSeen, fatalRun, sleepsSince, lastGap,
                    identity, cred, is_login, built, proxies, user_agents,
                    driver, is_logged_in, driverIdentity, drivers, loginDone,
                    wdError, sessionLog >>

\* a get_session that logs in on every call
needs_login_always(flag) ==
    TRUE

\* get_session: "if not self.is_login"
needs_login(flag) ==
    ~flag

\* SessionManagement.get_session(): _login() unless is_login, then the session
get_session(resp) ==
    /\ sessionLog.calls < MaxSessionCalls
    /\ IF needs_login(is_login)
         THEN /\ authCall' = [who |-> "SessionManagement._login",
                              creds |-> HasCredentials,
                              reachable |-> Reachable(resp),
                              requests |-> IF HasCredentials THEN 1 ELSE 0,
                              navigated |-> FALSE,
                              status |-> IF HasCredentials THEN resp.status ELSE 0,
                              wait |-> "none",
                              result |-> SessionManagement_login(resp)]
              /\ is_login' = (is_login \/ SessionManagement_login(resp))
         ELSE UNCHANGED << authCall, is_login >>
    /\ LET sent == IF needs_login(is_login) /\ HasCredentials THEN 1 ELSE 0
       IN  sessionLog' =
              [calls |-> sessionLog.calls + 1,
               requests |-> sessionLog.requests + sent,
               issued |-> sent,
               saw200 |-> sessionLog.saw200
                          \/ (sent = 1 /\ resp.kind = "response"
                                       /\ resp.status = StatusOK),
               atLogin |-> IF ~is_login /\ is_login'
                             THEN sessionLog.requests + sent
                             ELSE sessionLog.atLogin,
               returned |-> TheSession]
    /\ lastOp' = "get_session"
    /\ UNCHANGED << variant, max_pages_arg, pc, caller, logged_in, max_pages,
                    page, data, consecutive_failures, attempt, sleepFor,
                    ended, result, saved, requested, attempts, callWaits,
                    lastCall, pagerSeen, fatalRun, sleepsSince, lastGap,
                    identity, cred, built, proxies, user_agents, driver,
                    is_logged_in, driverIdentity, drivers, loginDone,
                    wdError >>

\* WebDriverManagement.__init__: the arguments are stored as they come
WebDriverManagement_init(pr, ua) ==
    /\ ~built
    /\ built' = TRUE
    /\ proxies' = pr
    /\ user_agents' = ua
    /\ driver' = 0
    /\ is_logged_in' = FALSE
    /\ lastOp' = "init"
    /\ UNCHANGED << variant, max_pages_arg, pc, caller, logged_in, max_pages,
                    page, data, consecutive_failures, attempt, sleepFor,
                    ended, result, saved, requested, attempts, callWaits,
                    lastCall, pagerSeen, fatalRun, sleepsSince, lastGap,
                    identity, cred, is_login, driverIdentity, drivers,
                    loginDone, wdError, authCall, sessionLog >>

\* WebDriverManagement.get_driver(): _setup_driver() when driver is None,
\* _login() when not is_logged_in, then the driver is returned.
\* random.choice of an empty pool raises IndexError, uc.Chrome may raise
\* WebDriverException; both leave get_driver.
get_driver(setup_ok, reach, wait) ==
    /\ built
    /\ lastOp' = "get_driver"
    /\ IF driver = 0 /\ (proxies = {} \/ user_agents = {})
         THEN /\ wdError' = "IndexError"
              /\ UNCHANGED << driver, drivers, driverIdentity, is_logged_in,
                              loginDone, authCall >>
       ELSE IF driver = 0 /\ ~setup_ok
         THEN /\ wdError' = "WebDriverException"
              /\ UNCHANGED << driver, drivers, driverIdentity, is_logged_in,
                              loginDone, authCall >>
       ELSE /\ wdError' = "none"
            /\ IF driver = 0
                 THEN /\ drivers < MaxDrivers
                      /\ driver' = drivers + 1
                      /\ drivers' = drivers + 1
                      /\ \E id \in [proxy : proxies, agent : user_agents] :
                            driverIdentity' = id
                 ELSE UNCHANGED << driver, drivers, driverIdentity >>
            /\ IF ~is_logged_in
                 THEN /\ authCall' = [who |-> "WebDriverManagement._login",
                                      creds |-> HasCredentials,
                                      reachable |-> reach,
                                      requests |-> 0,
                                      navigated |-> FALSE,
                                      status |-> 0,
                                      wait |-> IF HasCredentials THEN wait ELSE "none",
                                      result |-> WebDriverManagement_login(wait)]
                      /\ is_logged_in' = WebDriverManagement_login(wait)
                      /\ loginDone' = IF WebDriverManagement_login(wait)
                                        THEN loginDone \cup {driver'}
                                        ELSE loginDone
                 ELSE UNCHANGED << is_logged_in, loginDone, authCall >>
    /\ UNCHANGED << variant, max_pages_arg, pc, caller, logged_in, max_pages,
                    page, data, consecutive_failures, attempt, sleepFor,
                    ended, result, saved, requested, attempts, callWaits,
                    lastCall, pagerSeen, fatalRun, sleepsSince, lastGap,
                    identity, cred, is_login, built, proxies, user_agents,
                    sessionLog >>

\* WebDriverManagement.cleanup(): the driver is quit, "finally: self.driver =
\* None"; is_logged_in is not touched
cleanup ==
    /\ built
    /\ driver' = 0
    /\ driverIdentity' = NoIdentity
    /\ lastOp' = "cleanup"
    /\ UNCHANGED << variant, max_pages_arg, pc, caller, logged_in, max_pages,
                    page, data, consecutive_failures, attempt, sleepFor,
                    ended, result, saved, requested, attempts, callWaits,
                    lastCall, pagerSeen, fatalRun, sleepsSince, lastGap,
                    identity, cred, is_login, built, proxies, user_agents,
                    is_logged_in, drivers, loginDone, wdError, authCall,
                    sessionLog >>

\* WebDriverManagement.quit(): cleanup() and a log line
quit ==
    /\ built
    /\ driver' = 0
    /\ driverIdentity' = NoIdentity
    /\ lastOp' = "quit"
    /\ UNCHANGED << variant, max_pages_arg, pc, caller, logged_in, max_pages,
                    page, data, consecutive_failures, attempt, sleepFor,
                    ended, result, saved, requested, attempts, callWaits,
                    lastCall, pagerSeen, fatalRun, sleepsSince, lastGap,
                    identity, cred, is_login, built, proxies, user_agents,
                    is_logged_in, drivers, loginDone, wdError, authCall,
                    sessionLog >>

\* the objects are new; the credentials they are given may be missing
AuthInit ==
    /\ variant = "part1"
    /\ max_pages_arg = 0
    /\ cred \in [username : BOOLEAN, password : BOOLEAN]
    /\ ObjectsNew
    /\ RunNotStarted

AuthNext ==
    \/ \E resp \in Outcomes : call_login(resp)
    \/ \E nav \in {"ok", "error"}, wait \in {"present", "timeout"} : call_login_driver(nav, wait)
    \/ \E resp \in Outcomes : get_session(resp)
    \/ \E pr \in SUBSET PROXIES, ua \in SUBSET USER_AGENTS : WebDriverManagement_init(pr, ua)
    \/ \E setup_ok \in BOOLEAN, reach \in BOOLEAN, wait \in {"present", "timeout"} : get_driver(setup_ok, reach, wait)
    \/ cleanup
    \/ quit

AuthSpec == AuthInit /\ [][AuthNext]_vars

TypeOK ==
    /\ variant \in {"part1", "part2"}
    /\ max_pages_arg \in 0..MaxPages
    /\ pc \in {"main", "login", "attempt", "backoff", "pacing", "load",
               "returned", "raised", "exit"}
    /\ page \in 1..(MaxPages + 1)
    /\ attempt \in 0..MaxAttempts
    /\ sleepFor \in 0..WaitMax
    /\ consecutive_failures \in 0..FailureThreshold

\* --------------------------------------------------------------- claims

\* the pagination routine has ended (returned or raised)
LoopOver == ended # "no"

\* a page fetch of the pagination loop is being issued or retried
InLoop ==
    \/ pc \in {"attempt", "backoff"} /\ caller = "scrape"
    \/ pc = "load"

\* C3: a fetch_page call in which every attempt fails makes exactly 5
\* attempts, sleeps a backoff of 3..10 after each attempt but the last (so
\* 4 sleeps, one between consecutive attempts), and only then fails.
C3_RetryBudget ==
    /\ (variant = "part1" /\ lastCall.outcome = "fatal")
          => (lastCall.attempts = 5 /\ lastCall.waits = 4)
    /\ pc = "backoff"
          => (sleepFor >= 3 /\ sleepFor <= 10 /\ attempt < 5 /\ callWaits = attempt)
    /\ pc = "attempt" => (sleepFor = 0 /\ callWaits = attempt)

C3_Witness ==
    /\ variant = "part1"
    /\ lastCall.outcome = "fatal"
    /\ lastCall.attempts = 5
    /\ lastCall.waits = 4

\* C9: no page is requested unless login returned True; when login returns
\* False the run ends with no page request at all.
C9_NoFetchWithoutLogin ==
    /\ attempts.count > 0 => logged_in = "yes"
    /\ (pc \in {"attempt", "backoff", "pacing", "load"}) => logged_in = "yes"
    /\ logged_in = "no" => (pc = "exit" /\ requested = << >> /\ ended = "no")

C9_Witness ==
    /\ logged_in = "no"
    /\ pc = "exit"
    /\ attempts.count = 0

\* every page fetch so far ended as a page outcome of the loop, success or
\* fatal failure: no exception and no "No more data" stop has cut the run
PageOutcomesOnly == lastCall.outcome \in {"none", "ok", "fatal"}

\* the sequence 1, 2, ..., n
UpTo(n) == [i \in 1..n |-> i]

\* the pager text says "Page 1 of l"
Encodes(pager, l) ==
    pager.present /\ pager.words = << "Page", "1", "of", Numeral(l) >>

\* C1 (as claimed): the loop stops on the 3rd consecutive fatal page, not on
\* the 1st or 2nd, fetches nothing after it, and returns the records so far.
C1_Original ==
    /\ fatalRun <= 3
    /\ fatalRun = 3 => (ended = "returned" /\ result = data)
    /\ (LoopOver /\ lastCall.by = "scrape" /\ lastCall.outcome = "fatal")
          => fatalRun = 3

\* C2 (as claimed): after a fatal page below the threshold the loop goes on
\* with the next page number, and no page is requested a second time.
C2_Original ==
    /\ (lastCall.by = "scrape" /\ lastCall.outcome = "fatal" /\ fatalRun < 3)
          => (~LoopOver /\ page = lastCall.page + 1)
    /\ \A i, j \in DOMAIN requested : i < j => requested[i] # requested[j]

\* C4 (as claimed): no page gets more than 5 requests in a whole run.
C4_Original ==
    attempts.count <= 5

\* C4 (amended): one fetch_page call makes at most 5 attempts; in a whole run
\* a page gets at most 5 requests, except page 1 of a part1 run that resolves
\* the page count (max_pages = 0): get_max_page and the loop each fetch it,
\* so it gets at most 10.
\* (attempts counts the requests for the page requested last; requests
\* never go back to an earlier page, so the count of a page is final once
\* a later page is requested.)
C4_Amended ==
    /\ attempt <= 5
    /\ lastCall.attempts <= 5
    /\ attempts.page <= page
    /\ attempts.count <= IF variant = "part1" /\ max_pages_arg = 0 /\ attempts.page = 1
                           THEN 10 ELSE 5

C4_Witness ==
    /\ variant = "part1"
    /\ max_pages_arg = 0
    /\ attempts.page = 1
    /\ attempts.count = 10

\* C5 (as claimed): with max_pages = N >= 1 the loop requests exactly the
\* pages 1, 2, ..., N, each once and in this order, whichever pages succeed
\* and whichever fail.
C5_Original ==
    (max_pages_arg >= 1 /\ PageOutcomesOnly)
       => /\ \A i \in DOMAIN requested : requested[i] = i
          /\ LoopOver => requested = UpTo(max_pages_arg)

\* C6 (as claimed): exactly one pacing sleep of 1..3 lies between any two
\* consecutive page fetches of a run, whatever the first of them ended in.
C6_Original ==
    /\ lastGap \in {-1, 1}
    /\ pc = "pacing" => (sleepFor >= 1 /\ sleepFor <= 3)

\* C7 (as claimed): without a max-pages override the loop requests exactly
\* pages 1..L when page 1 says "Page 1 of L", and exactly page 1 when the
\* pager is absent or unreadable or page 1 could not be fetched.
C7_Original ==
    (variant = "part1" /\ max_pages_arg = 0 /\ LoopOver /\ PageOutcomesOnly)
       => IF \E l \in 0..MaxPages : Encodes(pagerSeen, l)
            THEN \A l \in 0..MaxPages :
                    Encodes(pagerSeen, l) => requested = UpTo(l)
            ELSE requested = << 1 >>

\* C8 (as claimed): however the loop ends, the records accumulated so far
\* are returned to its caller and not discarded.
C8_Original ==
    (LoopOver /\ data # << >>) => (ended = "returned" /\ result = data)

C11_Original ==
    variant = "part1" =>
       /\ lastCall.status # 0 => lastCall.status \in 200..299
       /\ lastCall.outcome = "fatal" => lastCall.attempts = MaxAttempts

\* C12: a fetch_page call that used up its retry budget never leaves the
\* crawl as an exception: get_max_page turns it into the default of 1 page
\* and the loop goes on, scrape_paginated_data stops and returns its data.
C12_RetryErrorCaught ==
    (variant = "part1" /\ lastCall.outcome = "fatal") =>
       /\ ended # "raised"
       /\ pc # "raised"
       /\ lastCall.by = "get_max_page" => max_pages = 1
       /\ lastCall.by = "scrape" => (ended = "returned" /\ result = data)

C12_Witness ==
    /\ variant = "part1"
    /\ lastCall.by = "get_max_page"
    /\ lastCall.outcome = "fatal"
    /\ lastCall.attempts = MaxAttempts
    /\ pc = "attempt"
    /\ caller = "scrape"

\* some authenticator has been called without credentials or while the
\* login endpoint could not be reached
AuthImpossible ==
    authCall.who # "none" /\ (~authCall.creds \/ ~authCall.reachable)

\* C13 (as claimed): each of the four authenticators returns False when the
\* credentials are absent or the login endpoint is unreachable, and the
\* authenticated flag of its object stays false.
C13_Original ==
    AuthImpossible =>
       /\ ~authCall.result
       /\ authCall.who = "SessionManagement._login" => ~is_login
       /\ authCall.who = "WebDriverManagement._login" => ~is_logged_in

\* C14 (as claimed): a basic-auth login with credentials sends exactly one
\* request and returns True exactly when the response status is in
\* 200..299; for every other status and for no response it returns False.
C14_Original ==
    (authCall.who \in {"login", "SessionManagement._login"} /\ authCall.creds) =>
       /\ authCall.requests = 1
       /\ authCall.result <=> (authCall.reachable /\ authCall.status \in 200..299)

\* C15 (as claimed): an interactive login returns True only if it navigated
\* the browser to the login address and the wait for <body> then succeeded.
C15_Original ==
    (authCall.who \in {"login_driver", "WebDriverManagement._login"}
        /\ authCall.result) =>
       (authCall.navigated /\ authCall.wait = "present")

\* C16 (as claimed): every request of a run that reached the network,
\* retries included, is sent with an identity drawn from the pools for that
\* attempt.
C16_Original ==
    (attempts.count > 0 /\ lastCall.outcome # "driver_error") =>
       (identity \in Identities /\ attempts.drawn = attempts.count)

\* C17 (as claimed): a WebDriverManagement with an empty proxy pool or an
\* empty user-agent pool cannot be constructed, and no draw of an identity
\* is the first to find the pool empty.
C17_Original ==
    /\ built => (proxies # {} /\ user_agents # {})
    /\ wdError # "IndexError"

\* C18: in scrape_data the counter equals the number of page loads that
\* timed out since the last page that loaded: it is 0 after a page that
\* loaded, one more after a page that timed out, and at most 3.
C18_FailureCounter ==
    variant = "part2" =>
       /\ consecutive_failures = fatalRun
       /\ consecutive_failures <= FailureThreshold
       /\ lastCall.outcome \in {"ok", "no_data"} => consecutive_failures = 0
       /\ (lastCall.outcome = "fatal" /\ pc = "load") =>
             consecutive_failures \in 1..(FailureThreshold - 1)

C18_Witness ==
    /\ variant = "part2"
    /\ data # << >>
    /\ lastCall.outcome = "fatal"
    /\ consecutive_failures = 2
    /\ pc = "load"

\* C19: a page on which no product_pod element is found adds no record and
\* raises nothing; part1 goes on with the next page, part2 ("No more data
\* found") returns the records it has.
C19_EmptyPage ==
    (lastCall.by = "scrape" /\ lastCall.found = 0
        /\ lastCall.outcome \in {"ok", "no_data"}) =>
       /\ ended # "raised"
       /\ \A i \in DOMAIN data : data[i][1] # lastCall.page
       /\ variant = "part1" => page = lastCall.page + 1
       /\ variant = "part2" => (ended = "returned" /\ result = data)

C19_Witness ==
    /\ variant = "part1"
    /\ lastCall.page = 2
    /\ lastCall.outcome = "ok"
    /\ lastCall.found = 0
    /\ Len(data) = 1
    /\ page = 3
    /\ pc = "attempt"

\* C20 (as claimed): whenever get_driver has returned a driver and
\* is_logged_in is true, that driver is one on which _login ran and
\* succeeded, also when it was set up after a cleanup.
C20_Original ==
    (lastOp = "get_driver" /\ wdError = "none" /\ is_logged_in) =>
       driver \in loginDone

\* C21: is_login of a SessionManagement is true only if some login request
\* was answered with status 200; once it is true, further get_session calls
\* send no login request; while it is false, each get_session call sends at
\* most one login request, none when a credential is missing; every call
\* returns the one session of the object.
C21_SessionLogin ==
    /\ is_login => sessionLog.saw200
    /\ is_login => sessionLog.requests = sessionLog.atLogin
    /\ sessionLog.issued <= 1
    /\ sessionLog.requests <= sessionLog.calls
    /\ ~HasCredentials => sessionLog.requests = 0
    /\ sessionLog.calls > 0 => sessionLog.returned = TheSession

C21_Witness ==
    /\ is_login
    /\ sessionLog.calls = 3
    /\ sessionLog.requests = 2
    /\ sessionLog.issued = 0

\* the records of seq stand in increasing page order, those of one page in
\* increasing index order, none of them twice
Ordered(seq) ==
    \A i, j \in DOMAIN seq :
       i < j => \/ seq[i][1] < seq[j][1]
                \/ (seq[i][1] = seq[j][1] /\ seq[i][2] < seq[j][2])

\* C22: in the data of the pagination loop and in the result it returns,
\* every page gives its records at most once and the records stand in
\* increasing page order, whatever the page outcomes were.
C22_PageOrder ==
    /\ Ordered(data)
    /\ ended = "returned" => (result = data /\ Ordered(result))

C22_Witness ==
    /\ variant = "part2"
    /\ ended = "returned"
    /\ requested = << 1, 1, 2 >>
    /\ result = << << 1, 1 >>, << 2, 1 >> >>

====
